---- MODULE Spec2Model ----
(***************************************************************************)
(* Dot's soul (src/soul/soul.ts): the perception handler registered with   *)
(* dot.onPerception and the four mental-process handlers registered with   *)
(* dot.on.  Every handler is an async function; an invocation runs its     *)
(* synchronous part when it is delivered, suspends on the capability call  *)
(* it awaits or returns, and is resumed when that call has settled.        *)
(* Several invocations may be in flight at once: the handlers hold no      *)
(* lock and share nothing but the soul's memory.                           *)
(*                                                                         *)
(* The Soul object itself (speak, think, observe, remember, the mode       *)
(* dispatcher and the delivery of results) is imported from                *)
(* "@opensouls/soul" and is modelled from the specification.               *)
(***************************************************************************)
EXTENDS Naturals, Sequences, FiniteSets, TLC

\* Number of handler invocations (perceptions and mode dispatches) in a run.
MaxInvocations == 2

Ids == 1..MaxInvocations

\* Perception type tags fed to the handler: the three the switch names and
\* tags it does not name (a different case, a trailing blank, another word).
KnownTypes == {"user_message", "self_reflection", "experience"}
UnknownTypes == {"User_Message", "experience ", "observation"}
PerceptionTypes == KnownTypes \cup UnknownTypes

\* Perception contents.
Contents == {"hello", "met a new friend"}

\* Mode labels handed to the dispatcher: the registered ones and others.
ModeInputs == {"idle", "curious", "empathetic", "playful", "sleepy", "Idle"}

\* Outcomes of a capability call that has finished.
Outcomes == {"ok", "fail"}

VARIABLES
  inv,       \* inv[i]: the input of invocation i (kind, type, content, mode)
  pc,        \* pc[i]: "new", "awaiting", "done" or "emitted"
  call,      \* call[i]: the capability call invocation i is suspended on
  calls,     \* calls[i]: every capability call invocation i has made, in order,
             \* each with how it stands (pending, ok, fail)
  result,    \* result[i]: what the handler's promise settled with
  sel,       \* sel[i]: what the mode dispatcher decided for invocation i
  memory,    \* the soul's memory log
  channel,   \* what has been forwarded to the user-facing channel
  internal   \* what has been kept on the internal log

vars == <<inv, pc, call, calls, result, sel, memory, channel, internal>>

NoInput == [kind |-> "none", type |-> "", content |-> "", mode |-> ""]
NoCall == [cap |-> "none", arg |-> "", state |-> "none", out |-> ""]
NoResult == [kind |-> "none", text |-> "", error |-> ""]
NoSel == [handler |-> "", error |-> ""]

----------------------------------------------------------------------------
(* The handlers of soul.ts *)

\* A registration left out: no handler for "playful".
RegisteredModes_NoPlayful == {"idle", "curious", "empathetic"}

\* The modes a handler is registered for (dot.on(...)).
RegisteredModes == {"idle", "curious", "empathetic", "playful"}

\* The thought each mental-process handler passes to soul.think.
ModeThought(mode) ==
  CASE mode = "idle" -> "I wonder what interesting things I might discover today..."
    [] mode = "curious" -> "This is fascinating! I want to understand more..."
    [] mode = "empathetic" -> "I sense something meaningful here. Let me be present..."
    [] mode = "playful" -> "*wiggles antennae happily* This is fun!"

\* The acknowledgment the experience case thinks after remembering.
ExperienceAck == "I'll remember this..."

\* Variants of the switch, each with one case changed.
\* The experience case remembers twice.
Plan_RememberTwice(type) ==
  CASE type = "user_message" -> <<"speak">>
    [] type = "self_reflection" -> <<"think">>
    [] type = "experience" -> <<"remember", "remember", "think">>
    [] OTHER -> <<"observe">>

\* The experience case thinks its acknowledgment before it remembers.
Plan_ThinkFirst(type) ==
  CASE type = "user_message" -> <<"speak">>
    [] type = "self_reflection" -> <<"think">>
    [] type = "experience" -> <<"think", "remember">>
    [] OTHER -> <<"observe">>

\* The user_message case remembers the message before it speaks.
Plan_RememberMessage(type) ==
  CASE type = "user_message" -> <<"remember", "speak">>
    [] type = "self_reflection" -> <<"think">>
    [] type = "experience" -> <<"remember", "think">>
    [] OTHER -> <<"observe">>

\* The match ignores the case of the tag.
Plan_IgnoreCase(type) ==
  CASE type \in {"user_message", "User_Message"} -> <<"speak">>
    [] type = "self_reflection" -> <<"think">>
    [] type = "experience" -> <<"remember", "think">>
    [] OTHER -> <<"observe">>

\* The self_reflection case speaks.
Plan_ReflectionSpoken(type) ==
  CASE type = "user_message" -> <<"speak">>
    [] type = "self_reflection" -> <<"speak">>
    [] type = "experience" -> <<"remember", "think">>
    [] OTHER -> <<"observe">>

\* The self_reflection case falls through into the experience case.
Plan_ReflectionRemembered(type) ==
  CASE type = "user_message" -> <<"speak">>
    [] type = "self_reflection" -> <<"remember", "think">>
    [] type = "experience" -> <<"remember", "think">>
    [] OTHER -> <<"observe">>

\* switch (type): the capability calls the matching case makes, in order.
\* The match is exact; every other tag takes the default case.
Plan(type) ==
  CASE type = "user_message" -> <<"speak">>
    [] type = "self_reflection" -> <<"think">>
    [] type = "experience" -> <<"remember", "think">>
    [] OTHER -> <<"observe">>

\* The experience case remembers its acknowledgment instead of the content.
ArgOf_AckRemembered(type, k, content) ==
  IF type = "experience" THEN ExperienceAck ELSE content

\* The argument of the k-th call of the case for this type.
ArgOf(type, k, content) ==
  IF type = "experience" /\ k = 2 THEN ExperienceAck ELSE content

\* A try/catch around the awaited call: the body goes on after a failure.
AfterCall_Swallow(state, left) ==
  IF left > 0 THEN "continue"
  ELSE IF state = "fail" THEN "reject" ELSE "return"

\* What the handler does when the call it is suspended on has settled and
\* `left` further calls remain in its case: a rejected call throws out of the
\* async function (there is no try/catch), a fulfilled awaited call lets the
\* body go on, and the value of the returned call settles the promise.
AfterCall(state, left) ==
  IF state = "fail" THEN "reject"
  ELSE IF left > 0 THEN "continue" ELSE "return"

\* The kind of result a capability's value stands for.
KindOf(cap) ==
  CASE cap = "speak" -> "Spoken"
    [] cap = "think" -> "Thought"
    [] cap = "observe" -> "Observed"
    [] OTHER -> "none"

\* The error a failed call raises: the memory write fails with a storage
\* error, a generation capability with a capability error.
ErrorOf(cap) == IF cap = "remember" THEN "StorageError" ELSE "CapabilityError"

\* A catch that turns a failed call into an empty result of its kind.
ResultOf_EmptyOnFailure(cap, state, out) ==
  [kind |-> KindOf(cap), text |-> out, error |-> ""]

\* What the handler's promise settles with when the body ends on a call of
\* `cap` that settled in `state` with value `out`.
ResultOf(cap, state, out) ==
  IF state = "fail"
  THEN [kind |-> "Failed", text |-> "", error |-> ErrorOf(cap)]
  ELSE [kind |-> KindOf(cap), text |-> out, error |-> ""]

----------------------------------------------------------------------------
(* The Soul object the handlers are given *)

\* The value a capability produces for an argument when it succeeds.
CapOut(cap, arg) ==
  CASE cap = "speak" -> "Dot: " \o arg
    [] cap = "think" -> "(thinks) " \o arg
    [] cap = "observe" -> arg
    [] OTHER -> ""

\* observe makes no backend call: it has its value as soon as it is called.
\* Every other capability is pending until the backend or the store answers.
StartCall(cap, arg) ==
  IF cap = "observe"
  THEN [cap |-> cap, arg |-> arg, state |-> "ok", out |-> CapOut(cap, arg)]
  ELSE [cap |-> cap, arg |-> arg, state |-> "pending", out |-> ""]

\* Memory.append: one record at the end of the log.
MemoryAppend(log, content, owner) ==
  Append(log, [content |-> content, by |-> owner])

\* select(mode): the handler registered for the mode, or UnknownModeError and
\* the idle handler as the fallback.
Select(mode) ==
  IF mode \in RegisteredModes
  THEN [handler |-> mode, error |-> ""]
  ELSE [handler |-> "idle", error |-> "UnknownModeError"]

----------------------------------------------------------------------------
(* Helpers *)

\* The calls of invocation i's handler and the argument of its k-th call.
PlanOf(i) == IF inv[i].kind = "mode" THEN <<"think">> ELSE Plan(inv[i].type)

ArgAt(i, k) ==
  IF inv[i].kind = "mode" THEN ModeThought(sel[i].handler)
  ELSE ArgOf(inv[i].type, k, inv[i].content)

\* The entry of the call history for a call: the capability, its argument
\* and how the call stands.
Entry(c) == [cap |-> c.cap, arg |-> c.arg, state |-> c.state]

\* Number of calls of capability cap in a sequence of calls.
CountCap(s, cap) == Cardinality({k \in 1..Len(s) : s[k].cap = cap})

\* Number of records of the log written by invocation i.
RecordsBy(log, i) == Cardinality({k \in 1..Len(log) : log[k].by = i})

IsPrefix(s, t) == Len(s) <= Len(t) /\ \A k \in 1..Len(s) : s[k] = t[k]

\* The next invocation to be delivered: invocations are numbered in the
\* order in which they arrive.
NextNew(i) == pc[i] = "new" /\ \A j \in Ids : j < i => pc[j] # "new"

----------------------------------------------------------------------------
Init ==
  /\ inv = [i \in Ids |-> NoInput]
  /\ pc = [i \in Ids |-> "new"]
  /\ call = [i \in Ids |-> NoCall]
  /\ calls = [i \in Ids |-> <<>>]
  /\ result = [i \in Ids |-> NoResult]
  /\ sel = [i \in Ids |-> NoSel]
  /\ memory = <<>>
  /\ channel = <<>>
  /\ internal = <<>>

\* The engine delivers a perception: the handler destructures it, takes the
\* case of its type and makes the first call of that case.
Deliver(i, type, content) ==
  /\ NextNew(i)
  /\ LET c == StartCall(Plan(type)[1], ArgOf(type, 1, content)) IN
       /\ inv' = [inv EXCEPT ![i] = [kind |-> "perception", type |-> type,
                                      content |-> content, mode |-> ""]]
       /\ call' = [call EXCEPT ![i] = c]
       /\ calls' = [calls EXCEPT ![i] = <<Entry(c)>>]
       /\ pc' = [pc EXCEPT ![i] = "awaiting"]
  /\ UNCHANGED <<result, sel, memory, channel, internal>>

\* The engine dispatches a mode: the handler selected for it thinks its
\* thought.
DispatchMode(i, mode) ==
  /\ NextNew(i)
  /\ LET s == Select(mode)
         c == StartCall("think", ModeThought(s.handler)) IN
       /\ inv' = [inv EXCEPT ![i] = [kind |-> "mode", type |-> "",
                                      content |-> "", mode |-> mode]]
       /\ sel' = [sel EXCEPT ![i] = s]
       /\ call' = [call EXCEPT ![i] = c]
       /\ calls' = [calls EXCEPT ![i] = <<Entry(c)>>]
       /\ pc' = [pc EXCEPT ![i] = "awaiting"]
  /\ UNCHANGED <<result, memory, channel, internal>>

\* The generation backend answers a pending speak or think.
BackendCompletes(i, outcome) ==
  /\ pc[i] = "awaiting"
  /\ call[i].state = "pending"
  /\ call[i].cap \in {"speak", "think"}
  /\ call' = [call EXCEPT ![i].state = outcome,
                          ![i].out = IF outcome = "ok"
                                     THEN CapOut(call[i].cap, call[i].arg)
                                     ELSE ""]
  /\ calls' = [calls EXCEPT ![i][Len(calls[i])].state = outcome]
  /\ UNCHANGED <<inv, pc, result, sel, memory, channel, internal>>

\* The memory store answers a pending remember: the record is in the log
\* when it reports success and is not when it reports failure.
StoreCompletes(i, outcome) ==
  /\ pc[i] = "awaiting"
  /\ call[i].state = "pending"
  /\ call[i].cap = "remember"
  /\ call' = [call EXCEPT ![i].state = outcome]
  /\ calls' = [calls EXCEPT ![i][Len(calls[i])].state = outcome]
  /\ memory' = IF outcome = "ok"
               THEN MemoryAppend(memory, call[i].arg, i)
               ELSE memory
  /\ UNCHANGED <<inv, pc, result, sel, channel, internal>>

\* The awaited call has been fulfilled: the handler goes on to the next call
\* of its case.
Continue(i) ==
  /\ pc[i] = "awaiting"
  /\ call[i].state \in Outcomes
  /\ AfterCall(call[i].state, Len(PlanOf(i)) - Len(calls[i])) = "continue"
  /\ LET k == Len(calls[i]) + 1
         c == StartCall(PlanOf(i)[k], ArgAt(i, k)) IN
       /\ call' = [call EXCEPT ![i] = c]
       /\ calls' = [calls EXCEPT ![i] = Append(@, Entry(c))]
  /\ UNCHANGED <<inv, pc, result, sel, memory, channel, internal>>

\* The handler's promise settles: with the value of the returned call, or
\* with the error of the call that was rejected.
Settle(i) ==
  /\ pc[i] = "awaiting"
  /\ call[i].state \in Outcomes
  /\ AfterCall(call[i].state, Len(PlanOf(i)) - Len(calls[i])) \in {"return", "reject"}
  /\ result' = [result EXCEPT ![i] = ResultOf(call[i].cap, call[i].state, call[i].out)]
  /\ call' = [call EXCEPT ![i] = NoCall]
  /\ pc' = [pc EXCEPT ![i] = "done"]
  /\ UNCHANGED <<inv, calls, sel, memory, channel, internal>>

\* The result is delivered: what was spoken goes to the user-facing channel,
\* everything else stays on the internal log.
Emit(i) ==
  /\ pc[i] = "done"
  /\ pc' = [pc EXCEPT ![i] = "emitted"]
  /\ IF result[i].kind = "Spoken"
     THEN /\ channel' = Append(channel, [by |-> i, text |-> result[i].text])
          /\ UNCHANGED internal
     ELSE /\ internal' = Append(internal, [by |-> i, kind |-> result[i].kind,
                                           text |-> result[i].text])
          /\ UNCHANGED channel
  /\ UNCHANGED <<inv, call, calls, result, sel, memory>>

Next ==
  \/ \E i \in Ids, t \in PerceptionTypes, c \in Contents : Deliver(i, t, c)
  \/ \E i \in Ids, m \in ModeInputs : DispatchMode(i, m)
  \/ \E i \in Ids, o \in Outcomes : BackendCompletes(i, o)
  \/ \E i \in Ids, o \in Outcomes : StoreCompletes(i, o)
  \/ \E i \in Ids : Continue(i)
  \/ \E i \in Ids : Settle(i)
  \/ \E i \in Ids : Emit(i)

Spec == Init /\ [][Next]_vars

----------------------------------------------------------------------------
(* Properties *)

IsPerception(i, type) == inv[i].kind = "perception" /\ inv[i].type = type

IsUnknown(i) ==
  /\ inv[i].kind = "perception"
  /\ inv[i].type \notin {"user_message", "self_reflection", "experience"}

Finished(i) == pc[i] \in {"done", "emitted"}

\* The first call of invocation i is a remember that the store acknowledged.
AppendOk(i) ==
  /\ Len(calls[i]) >= 1
  /\ calls[i][1].cap = "remember"
  /\ calls[i][1].state = "ok"

AppendFailed(i) ==
  /\ Len(calls[i]) >= 1
  /\ calls[i][1].cap = "remember"
  /\ calls[i][1].state = "fail"

\* C1: an experience perception remembers its content exactly once and first;
\* the acknowledgment is thought at most once, and only when the record of
\* this perception is in the log; when the append and the think have both
\* succeeded the result is Thought.
C1_AppendBeforeThink ==
  \A i \in Ids : IsPerception(i, "experience") =>
    /\ CountCap(calls[i], "remember") = 1
    /\ calls[i][1] = [cap |-> "remember", arg |-> inv[i].content,
                      state |-> calls[i][1].state]
    /\ CountCap(calls[i], "think") <= 1
    /\ CountCap(calls[i], "speak") = 0 /\ CountCap(calls[i], "observe") = 0
    /\ CountCap(calls[i], "think") = 1 =>
         /\ Len(calls[i]) = 2
         /\ calls[i][2].cap = "think"
         /\ calls[i][2].arg = "I'll remember this..."
         /\ calls[i][1].state = "ok"
         /\ RecordsBy(memory, i) = 1
    /\ (AppendOk(i) /\ Finished(i)) =>
         /\ CountCap(calls[i], "think") = 1
         /\ calls[i][2].state = "ok" =>
              /\ result[i].kind = "Thought"
              /\ result[i].text = CapOut("think", "I'll remember this...")

C1_Witness ==
  \E i \in Ids :
    /\ IsPerception(i, "experience")
    /\ AppendOk(i)
    /\ Finished(i)
    /\ result[i].kind = "Thought"
    /\ RecordsBy(memory, i) = 1

\* C2: when the append of an experience perception fails, think is never
\* called, the append is not tried again, the log holds no record of the
\* perception, and the result is a failure naming StorageError.
C2_AppendFailure ==
  \A i \in Ids : (IsPerception(i, "experience") /\ AppendFailed(i)) =>
    /\ CountCap(calls[i], "think") = 0
    /\ Len(calls[i]) = 1
    /\ RecordsBy(memory, i) = 0
    /\ result[i].kind \in {"none", "Failed"}
    /\ Finished(i) => (result[i].kind = "Failed" /\ result[i].error = "StorageError")

C2_Witness ==
  \E i \in Ids :
    /\ IsPerception(i, "experience")
    /\ AppendFailed(i)
    /\ Finished(i)
    /\ result[i].error = "StorageError"

\* C3: a user_message perception calls speak exactly once, with its content,
\* and calls nothing else; it leaves no record in the log; when speak has
\* succeeded the result is Spoken with speak's output.
C3_UserMessageSpoken ==
  \A i \in Ids : IsPerception(i, "user_message") =>
    /\ Len(calls[i]) = 1
    /\ calls[i][1].cap = "speak"
    /\ calls[i][1].arg = inv[i].content
    /\ RecordsBy(memory, i) = 0
    /\ (Finished(i) /\ calls[i][1].state = "ok") =>
         /\ result[i].kind = "Spoken"
         /\ result[i].text = "Dot: " \o inv[i].content
         /\ inv[i].content = "hello" => result[i].text = "Dot: hello"

C3_Witness ==
  \E i \in Ids :
    /\ IsPerception(i, "user_message")
    /\ inv[i].content = "hello"
    /\ Finished(i)
    /\ result[i] = [kind |-> "Spoken", text |-> "Dot: hello", error |-> ""]

\* C4: a perception whose type is none of user_message, self_reflection and
\* experience calls observe with its content and nothing else, never waits
\* and never fails, and its result is Observed carrying the content.
C4_UnknownObserved ==
  \A i \in Ids : IsUnknown(i) =>
    /\ Len(calls[i]) = 1
    /\ calls[i][1] = [cap |-> "observe", arg |-> inv[i].content, state |-> "ok"]
    /\ RecordsBy(memory, i) = 0
    /\ result[i].kind \in {"none", "Observed"}
    /\ pc[i] = "awaiting" => ENABLED Settle(i)
    /\ Finished(i) =>
         result[i] = [kind |-> "Observed", text |-> inv[i].content, error |-> ""]

C4_Witness ==
  \E i \in Ids :
    /\ IsUnknown(i)
    /\ inv[i].type = "User_Message"
    /\ Finished(i)
    /\ result[i].kind = "Observed"

\* C5: everything on the user-facing channel is the output of speak for a
\* user_message perception; a self_reflection perception yields Thought and
\* is never Spoken; a Thought or Observed result is never on the channel.
C5_NoInternalLeak ==
  /\ \A k \in 1..Len(channel) :
       /\ IsPerception(channel[k].by, "user_message")
       /\ result[channel[k].by].kind = "Spoken"
       /\ channel[k].text = CapOut("speak", inv[channel[k].by].content)
  /\ \A i \in Ids :
       /\ IsPerception(i, "self_reflection") =>
            /\ result[i].kind \in {"none", "Thought", "Failed"}
            /\ (Finished(i) /\ calls[i][1].state = "ok") => result[i].kind = "Thought"
       /\ result[i].kind \in {"Thought", "Observed"} =>
            /\ \A k \in 1..Len(channel) : channel[k].by # i
            /\ pc[i] = "emitted" =>
                 \E k \in 1..Len(internal) :
                   internal[k] = [by |-> i, kind |-> result[i].kind,
                                  text |-> result[i].text]

C5_Witness ==
  /\ Len(channel) = 1
  /\ Len(internal) = 1
  /\ \E i \in Ids :
       /\ IsPerception(i, "self_reflection")
       /\ pc[i] = "emitted"
       /\ result[i].kind = "Thought"
\* C6: append is not deduplicated: for every content the log holds as many
\* records with that content as there are experience perceptions with that
\* content whose append succeeded, so the same experience processed twice
\* leaves two records.
C6_NoDeduplication ==
  /\ Len(memory) = Cardinality({i \in Ids : IsPerception(i, "experience") /\ AppendOk(i)})
  /\ \A c \in Contents :
       Cardinality({k \in 1..Len(memory) : memory[k].content = c})
         = Cardinality({i \in Ids : /\ IsPerception(i, "experience")
                                    /\ inv[i].content = c
                                    /\ AppendOk(i)})

C6_Witness ==
  /\ \A i \in Ids : IsPerception(i, "experience") /\ AppendOk(i) /\ Finished(i)
  /\ \A i, j \in Ids : inv[i].content = inv[j].content
  /\ Len(memory) = MaxInvocations
  /\ \A k \in 1..Len(memory) : memory[k].content = inv[1].content

\* C7: dispatching a mode of {idle, curious, empathetic, playful} selects that
\* mode's handler without error; any other mode is an UnknownModeError and
\* the idle handler runs in its place.
C7_SelectTotal ==
  \A i \in Ids : inv[i].kind = "mode" =>
    /\ inv[i].mode \in {"idle", "curious", "empathetic", "playful"} =>
         /\ sel[i] = [handler |-> inv[i].mode, error |-> ""]
         /\ calls[i][1].cap = "think"
         /\ calls[i][1].arg = ModeThought(inv[i].mode)
    /\ inv[i].mode \notin {"idle", "curious", "empathetic", "playful"} =>
         /\ sel[i] = [handler |-> "idle", error |-> "UnknownModeError"]
         /\ calls[i][1].cap = "think"
         /\ calls[i][1].arg =
              "I wonder what interesting things I might discover today..."
    /\ Len(calls[i]) = 1
    /\ (Finished(i) /\ calls[i][1].state = "ok") => result[i].kind = "Thought"

C7_Witness ==
  \E i, j \in Ids :
    /\ inv[i].kind = "mode" /\ inv[i].mode = "sleepy"
    /\ sel[i].error = "UnknownModeError"
    /\ Finished(i) /\ result[i].kind = "Thought"
    /\ inv[j].kind = "mode" /\ inv[j].mode = "playful"
    /\ Finished(j) /\ result[j].kind = "Thought"

\* Invocation i has made a speak or think call that failed.
CapabilityFailed(i) ==
  \E k \in 1..Len(calls[i]) :
    calls[i][k].cap \in {"speak", "think"} /\ calls[i][k].state = "fail"

\* C8: after a failed speak or think the result is never Spoken, Thought or
\* empty-handed success but the failure CapabilityError; and a result exists
\* only when every call the handler made has finished.
C8_CapabilityFailureSurfaced ==
  \A i \in Ids :
    /\ CapabilityFailed(i) =>
         /\ result[i].kind \in {"none", "Failed"}
         /\ Finished(i) =>
              result[i] = [kind |-> "Failed", text |-> "", error |-> "CapabilityError"]
    /\ result[i] # NoResult =>
         /\ Finished(i)
         /\ call[i] = NoCall
         /\ \A k \in 1..Len(calls[i]) : calls[i][k].state \in {"ok", "fail"}
    /\ Finished(i) => result[i] # NoResult

C8_Witness ==
  \E i, j \in Ids :
    /\ IsPerception(i, "user_message") /\ CapabilityFailed(i) /\ Finished(i)
    /\ result[i].error = "CapabilityError"
    /\ IsPerception(j, "experience") /\ CapabilityFailed(j) /\ Finished(j)
    /\ result[j].error = "CapabilityError"

\* C9: with experience perceptions in flight together, under every
\* interleaving the log holds exactly one record, with the perception's own
\* content, for each perception whose append succeeded and none for any
\* other, and a perception's acknowledgment is thought only once its own
\* record is in the log.
C9_ConcurrentAppends ==
  /\ \A i \in Ids :
       /\ RecordsBy(memory, i) =
            IF IsPerception(i, "experience") /\ AppendOk(i) THEN 1 ELSE 0
       /\ \A k \in 1..Len(memory) :
            memory[k].by = i => memory[k].content = inv[i].content
       /\ (IsPerception(i, "experience") /\ CountCap(calls[i], "think") > 0) =>
            /\ AppendOk(i)
            /\ RecordsBy(memory, i) = 1
  /\ \A k \in 1..Len(memory) : memory[k].by \in Ids

\* Two experience perceptions overlapped: the one delivered later was
\* appended first, and both were acknowledged.
C9_Witness ==
  /\ Len(memory) = 2
  /\ memory[1].by > memory[2].by
  /\ memory[1].content # memory[2].content
  /\ \A k \in 1..2 : /\ Finished(memory[k].by)
                     /\ result[memory[k].by].kind = "Thought"

\* C10: every step leaves the earlier log as a prefix of the later one; the
\* log grows only by a record of an experience perception, and no
\* user_message, self_reflection or unknown-type perception and no
\* mental-process handler ever has a record in it.
C10_AppendOnly ==
  [][ /\ IsPrefix(memory, memory')
      /\ memory' # memory =>
           /\ Len(memory') = Len(memory) + 1
           /\ IsPerception(memory'[Len(memory')].by, "experience")
           /\ memory'[Len(memory')].content = inv[memory'[Len(memory')].by].content
      /\ \A i \in Ids :
           (inv'[i].kind = "mode" \/ inv'[i].type # "experience") =>
             RecordsBy(memory', i) = 0 ]_vars

C10_Witness ==
  \E i, j \in Ids :
    /\ IsPerception(i, "experience") /\ AppendOk(i)
    /\ Len(memory) = 1
    /\ inv[j].kind = "mode" /\ pc[j] = "emitted"
====
